---- MODULE Spec2Model ----
(***************************************************************************)
(* aufs, file operations for special files (fs/aufs/f_op_sp.c).            *)
(*                                                                         *)
(* One dentry (a FIFO) in a stack of branches, and NThread threads.        *)
(* Thread t owns struct file t: it opens it (aufs_open_sp), reads and      *)
(* writes it (aufs_aio_read_sp, aufs_aio_write_sp) and releases it         *)
(* (aufs_release_sp).  Every lock operation of the source is one step;     *)
(* the functions the file calls but does not define (au_do_open,           *)
(* au_do_open_nondir, au_cpup_dirs, au_pin, au_sio_cpup_simple,            *)
(* au_finfo_fin, aufs_release_nondir, the branch's own file operations)    *)
(* are one step each, with a nondeterministic result.                      *)
(*                                                                         *)
(* Spec is the whole file.  SpecAgain adds a caller that releases a file   *)
(* twice.  SpecIo is the reads and writes of open files under any branch   *)
(* permissions.  SpecPipe is Spec for the two ends of one pipe, whose      *)
(* native open waits for the peer, with the scheduler's fairness.          *)
(***************************************************************************)
EXTENDS Integers, FiniteSets, Sequences, TLC

\* ---------------------------------------------------------------- bounds
NThread == 2
NBranch == 3
MaxOpen == 1       \* opens a thread may start

Threads  == 1..NThread
Branches == 0..(NBranch - 1)

\* ------------------------------------------------- enum at lines 103-105
AuSp_FIFO    == 0
AuSp_FIFO_R  == 1
AuSp_FIFO_W  == 2
AuSp_FIFO_RW == 3
AuSp_Last    == 4
Slots        == AuSp_FIFO..(AuSp_Last - 1)

\* f_mode & (FMODE_READ | FMODE_WRITE)
Modes == {"R", "W", "RW"}

VARIABLES
    br_rdonly,   \* [Branches -> BOOLEAN]   au_br_rdonly(au_sbr(sb, i))
    dbstart,     \* au_dbstart(dentry)
    h_dptr,      \* set of branches where the dentry has an entry
    h_parent,    \* set of branches where the parent has an entry
    ncpup,       \* [Branches -> Nat] entries created by au_sio_cpup_simple
    si,          \* set of threads holding si_rwsem shared
    di,          \* [{"dentry","parent"} -> rwsem]             di_rwsem
    fi,          \* [file -> rwsem]                            fi_rwsem
    pinned,      \* set of threads holding an au_pin
    spin,        \* [Slots \cup {AuSp_Last} -> holders]; AuSp_Last: the static spin
    au_sp_fop,   \* [Slots -> [done, aio_read, aio_write, release, built]]
    finfo,       \* [file -> "none" | "live" | "freed"]        au_finfo
    fbstart,     \* [file -> branch or -1]                      au_fbstart
    h_fptr,      \* [file -> SUBSET Branches]  slots of the handle array set
    f_op,        \* [file -> slot or -1]  file->f_op = &au_sp_fop[slot].fop
    f_mode,      \* [file -> mode]  f_mode & (FMODE_READ | FMODE_WRITE)
    nopen,       \* [thread -> opens started]
    pc,          \* [thread -> position in the code]
    bend,        \* local of au_do_open_sp
    bcpup,       \* local of au_do_open_sp / au_cpup_sp
    err,         \* local err of the running function
    h_file,      \* local h_file: the branch whose handle was resolved
    wbr,         \* local wbr of aufs_aio_read_sp / aufs_aio_write_sp
    hist         \* [thread -> record] what the running operation has called

vars == <<br_rdonly, dbstart, h_dptr, h_parent, ncpup, si, di, fi, pinned,
          spin, au_sp_fop, finfo, fbstart, h_fptr, f_op, f_mode, nopen, pc, bend,
          bcpup, err, h_file, wbr, hist>>

brv   == <<br_rdonly>>
dv    == <<dbstart, h_dptr, h_parent, ncpup>>
lockv == <<si, di, fi, pinned>>
fopv  == <<spin, au_sp_fop>>
filev == <<finfo, fbstart, h_fptr, f_op, f_mode, nopen>>
locv  == <<bend, bcpup, err, h_file, wbr>>

\* ------------------------------------------------------------- rwsem, spin
Unlocked == [r |-> {}, w |-> {}]          \* r: shared holders, w: the exclusive holder

rw_read_lock(l, t)    == [l EXCEPT !.r = @ \cup {t}]
rw_read_unlock(l, t)  == [l EXCEPT !.r = @ \ {t}]
rw_write_lock(l, t)   == [l EXCEPT !.w = {t}]
rw_write_unlock(l, t) == [l EXCEPT !.w = @ \ {t}]
rw_downgrade(l, t)    == [l EXCEPT !.w = @ \ {t}, !.r = @ \cup {t}]
can_read(l)           == l.w = {}
can_write(l)          == l.w = {} /\ l.r = {}

HoldsDi(t, d) == t \in di[d].r \cup di[d].w
HoldsFi(t)    == \E f \in Threads : t \in fi[f].r \cup fi[f].w
HoldsSi(t)    == t \in si

NoHist == [cpup |-> FALSE, nondir |-> FALSE, h_open |-> FALSE,
           fast |-> FALSE, nspin |-> 0,
           rel |-> "none", td |-> 0, td_err |-> "none",
           again |-> FALSE, uaf |-> FALSE, stamp |-> "none",
           h_ret |-> "none", fin |-> 0]

goto(t, l) == pc' = [pc EXCEPT ![t] = l]

\* the locals of a function that has returned
return(t) ==
    /\ bend' = [bend EXCEPT ![t] = -1]
    /\ bcpup' = [bcpup EXCEPT ![t] = -1]
    /\ err' = [err EXCEPT ![t] = "OK"]
    /\ h_file' = [h_file EXCEPT ![t] = -1]
    /\ wbr' = [wbr EXCEPT ![t] = FALSE]
    /\ hist' = [hist EXCEPT ![t] = NoHist]

\* ------------------------------------------------------------------- Init
Init ==
    /\ dbstart \in Branches
    /\ br_rdonly \in {p \in [Branches -> BOOLEAN] :
                        \A b \in Branches : b > dbstart => p[b]}
    /\ h_dptr = {dbstart}
    /\ h_parent \in {{b \in Branches : b >= dbstart}, Branches}
    /\ ncpup = [b \in Branches |-> 0]
    /\ si = {}
    /\ di = [d \in {"dentry", "parent"} |-> Unlocked]
    /\ fi = [f \in Threads |-> Unlocked]
    /\ pinned = {}
    /\ spin = [i \in AuSp_FIFO..AuSp_Last |-> {}]
    /\ au_sp_fop = [i \in Slots |->
                      [done |-> 0, aio_read |-> "null", aio_write |-> "null",
                       release |-> "null", built |-> 0]]
    /\ finfo = [f \in Threads |-> "none"]
    /\ fbstart = [f \in Threads |-> -1]
    /\ h_fptr = [f \in Threads |-> {}]
    /\ f_op = [f \in Threads |-> AuSp_FIFO]
    /\ f_mode = [f \in Threads |-> "R"]
    /\ nopen = [t \in Threads |-> 0]
    /\ pc = [t \in Threads |-> "idle"]
    /\ bend = [t \in Threads |-> -1]
    /\ bcpup = [t \in Threads |-> -1]
    /\ err = [t \in Threads |-> "OK"]
    /\ h_file = [t \in Threads |-> -1]
    /\ wbr = [t \in Threads |-> FALSE]
    /\ hist = [t \in Threads |-> NoHist]

\* ------------------------------------------------------------ au_do_open
\* aufs_open_sp, line 268: au_do_open(file, au_do_open_sp).  au_do_open takes
\* the locks au_do_open_sp is entered with, and drops them after it.
au_do_open_enter(t) ==
    /\ pc[t] \in {"idle", "closed"}
    /\ nopen[t] < MaxOpen
    /\ nopen' = [nopen EXCEPT ![t] = @ + 1]
    /\ f_mode' = [f_mode EXCEPT ![t] = "R"]
    /\ si' = si \cup {t}
    /\ can_read(di["dentry"])
    /\ di' = [di EXCEPT !["dentry"] = rw_read_lock(@, t)]
    /\ can_write(fi[t])
    /\ fi' = [fi EXCEPT ![t] = rw_write_lock(@, t)]
    /\ finfo' = [finfo EXCEPT ![t] = "live"]
    /\ fbstart' = [fbstart EXCEPT ![t] = -1]
    /\ h_fptr' = [h_fptr EXCEPT ![t] = {}]
    /\ f_op' = [f_op EXCEPT ![t] = AuSp_FIFO]
    /\ goto(t, "sp_218")
    /\ UNCHANGED <<brv, dv, pinned, fopv, locv, hist>>

\* --------------------------------------------------------- au_do_open_sp
\* lines 221-226: the first writable branch above bend, or -1
RECURSIVE scan_writable(_, _)
scan_writable(bindex, b) ==
    IF bindex >= b THEN -1
    ELSE IF ~br_rdonly[bindex] THEN bindex
    ELSE scan_writable(bindex + 1, b)

\* the scan without the break of line 225: the last writable branch
RECURSIVE scan_nobreak(_, _, _)
scan_nobreak(bindex, b, found) ==
    IF bindex >= b THEN found
    ELSE scan_nobreak(bindex + 1, b,
                      IF ~br_rdonly[bindex] THEN bindex ELSE found)

first_writable_nobreak(b) == scan_nobreak(0, b, -1)

first_writable(b) == scan_writable(0, b)

\* line 235 without the else branch: err stays 0
err_no_writable_unset == "OK"

\* line 235
err_no_writable == "EROFS"

\* lines 218-236 without the test of line 219: the scan runs whether or not
\* the start branch is read-only
au_do_open_sp_218_scan(t) ==
    /\ pc[t] = "sp_218"
    /\ bend' = [bend EXCEPT ![t] = dbstart]
    /\ LET b == first_writable(dbstart) IN
       /\ bcpup' = [bcpup EXCEPT ![t] = b]
       /\ IF b >= 0
          THEN goto(t, "sp_229") /\ UNCHANGED err
          ELSE /\ err' = [err EXCEPT ![t] = err_no_writable]
               /\ goto(t, "sp_237")
    /\ UNCHANGED <<brv, dv, lockv, fopv, filev, h_file, wbr, hist>>

\* lines 218-236, up to the decision to copy up
au_do_open_sp_218(t) ==
    /\ pc[t] = "sp_218"
    /\ bend' = [bend EXCEPT ![t] = dbstart]
    /\ IF br_rdonly[dbstart]
       THEN LET b == first_writable(dbstart) IN
            /\ bcpup' = [bcpup EXCEPT ![t] = b]
            /\ IF b >= 0
               THEN goto(t, "sp_229") /\ UNCHANGED err
               ELSE /\ err' = [err EXCEPT ![t] = err_no_writable]
                    /\ goto(t, "sp_237")
       ELSE goto(t, "sp_237") /\ UNCHANGED <<bcpup, err>>
    /\ UNCHANGED <<brv, dv, lockv, fopv, filev, h_file, wbr, hist>>

\* line 229 left out: the upgrade is asked for with the shared lock held
au_do_open_sp_229_keep(t) ==
    /\ pc[t] = "sp_229"
    /\ goto(t, "sp_230")
    /\ UNCHANGED <<brv, dv, lockv, fopv, filev, locv, hist>>

\* line 229
au_do_open_sp_229(t) ==
    /\ pc[t] = "sp_229"
    /\ di' = [di EXCEPT !["dentry"] = rw_read_unlock(@, t)]
    /\ goto(t, "sp_230")
    /\ UNCHANGED <<brv, dv, si, fi, pinned, fopv, filev, locv, hist>>

\* line 230 with di_read_lock_child in place of di_write_lock_child
au_do_open_sp_230_shared(t) ==
    /\ pc[t] = "sp_230"
    /\ can_read(di["dentry"])
    /\ di' = [di EXCEPT !["dentry"] = rw_read_lock(@, t)]
    /\ goto(t, "sp_231")
    /\ UNCHANGED <<brv, dv, si, fi, pinned, fopv, filev, locv, hist>>

\* line 230
au_do_open_sp_230(t) ==
    /\ pc[t] = "sp_230"
    /\ can_write(di["dentry"])
    /\ di' = [di EXCEPT !["dentry"] = rw_write_lock(@, t)]
    /\ goto(t, "sp_231")
    /\ UNCHANGED <<brv, dv, si, fi, pinned, fopv, filev, locv, hist>>

\* line 231 without the re-check
need_cpup_always(b) == TRUE

\* line 231: the re-check under the exclusive lock
need_cpup(b) == b < dbstart

\* lines 231-232
au_do_open_sp_231(t) ==
    /\ pc[t] = "sp_231"
    /\ IF need_cpup(bcpup[t])
       THEN /\ hist' = [hist EXCEPT ![t].cpup = TRUE]
            /\ goto(t, "cpup_184")
       ELSE goto(t, "sp_233") /\ UNCHANGED hist
    /\ UNCHANGED <<brv, dv, lockv, fopv, filev, locv>>

\* ------------------------------------------------------------ au_cpup_sp
\* line 184: di_write_lock_parent(parent)
au_cpup_sp_184(t) ==
    /\ pc[t] = "cpup_184"
    /\ can_write(di["parent"])
    /\ di' = [di EXCEPT !["parent"] = rw_write_lock(@, t)]
    /\ err' = [err EXCEPT ![t] = "OK"]
    /\ goto(t, "cpup_185")
    /\ UNCHANGED <<brv, dv, si, fi, pinned, fopv, filev, bend, bcpup, h_file,
                   wbr, hist>>

\* au_cpup_dirs(dentry, bcpup): the directory-only copy-up of the ancestors
au_cpup_dirs(t, ok) ==
    IF ok
    THEN /\ h_parent' = h_parent \cup {bcpup[t]}
         /\ UNCHANGED err
    ELSE /\ err' = [err EXCEPT ![t] = "ECPUP_DIRS"]
         /\ UNCHANGED h_parent

\* line 185: does the parent lack an entry in the target branch
parent_missing(b) == b \notin h_parent

\* lines 185-189 with return err in place of goto out at line 188
au_cpup_sp_185_leak(t) ==
    /\ pc[t] = "cpup_185"
    /\ IF parent_missing(bcpup[t])
       THEN \E ok \in BOOLEAN :
               /\ au_cpup_dirs(t, ok)
               /\ goto(t, IF ok THEN "cpup_191" ELSE "sp_233")
       ELSE goto(t, "cpup_191") /\ UNCHANGED <<h_parent, err>>
    /\ UNCHANGED <<brv, dbstart, h_dptr, ncpup, lockv, fopv, filev, bend,
                   bcpup, h_file, wbr, hist>>

\* lines 185-189
au_cpup_sp_185(t) ==
    /\ pc[t] = "cpup_185"
    /\ IF parent_missing(bcpup[t])
       THEN \E ok \in BOOLEAN :
               /\ au_cpup_dirs(t, ok)
               /\ goto(t, IF ok THEN "cpup_191" ELSE "cpup_199")
       ELSE goto(t, "cpup_191") /\ UNCHANGED <<h_parent, err>>
    /\ UNCHANGED <<brv, dbstart, h_dptr, ncpup, lockv, fopv, filev, bend,
                   bcpup, h_file, wbr, hist>>

\* au_pin(&pin, dentry, bcpup, ...)
au_pin(t, ok) ==
    IF ok
    THEN /\ pinned' = pinned \cup {t}
         /\ UNCHANGED err
    ELSE /\ err' = [err EXCEPT ![t] = "EPIN"]
         /\ UNCHANGED pinned

\* lines 191-193
au_cpup_sp_191(t) ==
    /\ pc[t] = "cpup_191"
    /\ \E ok \in BOOLEAN :
          /\ au_pin(t, ok)
          /\ goto(t, IF ok THEN "cpup_194" ELSE "cpup_199")
    /\ UNCHANGED <<brv, dv, si, di, fi, fopv, filev, bend, bcpup, h_file,
                   wbr, hist>>

\* au_sio_cpup_simple(dentry, bcpup, -1, AuCpup_DTIME): creates the entry in
\* the target branch, which becomes the dentry's start branch
au_sio_cpup_simple(t, ok) ==
    IF ok
    THEN /\ h_dptr' = h_dptr \cup {bcpup[t]}
         /\ ncpup' = [ncpup EXCEPT ![bcpup[t]] = @ + 1]
         /\ dbstart' = bcpup[t]
         /\ UNCHANGED err
    ELSE /\ err' = [err EXCEPT ![t] = "ECPUP_SIMPLE"]
         /\ UNCHANGED <<h_dptr, ncpup, dbstart>>

\* line 194
au_cpup_sp_194(t) ==
    /\ pc[t] = "cpup_194"
    /\ \E ok \in BOOLEAN : au_sio_cpup_simple(t, ok)
    /\ goto(t, "cpup_195")
    /\ UNCHANGED <<brv, h_parent, lockv, fopv, filev, bend, bcpup, h_file,
                   wbr, hist>>

\* line 195: au_unpin(&pin)
au_cpup_sp_195(t) ==
    /\ pc[t] = "cpup_195"
    /\ pinned' = pinned \ {t}
    /\ goto(t, "cpup_199")
    /\ UNCHANGED <<brv, dv, si, di, fi, fopv, filev, locv, hist>>

\* lines 199-201: di_write_unlock(parent); return err
au_cpup_sp_199(t) ==
    /\ pc[t] = "cpup_199"
    /\ di' = [di EXCEPT !["parent"] = rw_write_unlock(@, t)]
    /\ goto(t, "sp_233")
    /\ UNCHANGED <<brv, dv, si, fi, pinned, fopv, filev, locv, hist>>

\* ------------------------------------------- au_do_open_sp, continued
\* line 233 left out: the dentry's lock stays exclusive
au_do_open_sp_233_keep(t) ==
    /\ pc[t] = "sp_233"
    /\ goto(t, "sp_237")
    /\ UNCHANGED <<brv, dv, lockv, fopv, filev, locv, hist>>

\* line 233: di_downgrade_lock(dentry, AuLock_IR)
au_do_open_sp_233(t) ==
    /\ pc[t] = "sp_233"
    /\ di' = [di EXCEPT !["dentry"] = rw_downgrade(@, t)]
    /\ goto(t, "sp_237")
    /\ UNCHANGED <<brv, dv, si, fi, pinned, fopv, filev, locv, hist>>

\* au_do_open_nondir(file, flags): opens the entry in the dentry's start
\* branch and stores the handle in that slot of the file's handle array
au_do_open_nondir(t, ok) ==
    /\ hist' = [hist EXCEPT ![t].nondir = TRUE]
    /\ IF ok
       THEN /\ fbstart' = [fbstart EXCEPT ![t] = dbstart]
            /\ h_fptr' = [h_fptr EXCEPT ![t] = {dbstart}]
            /\ UNCHANGED err
       ELSE /\ err' = [err EXCEPT ![t] = "EOPEN_NONDIR"]
            /\ UNCHANGED <<fbstart, h_fptr>>

\* line 237 left out
failed_ignored(e) == FALSE

\* line 237: if (unlikely(err)) goto out
failed(e) == e # "OK"

\* lines 237-251 without the unlocks of lines 247-249: the native open is
\* called with the three locks held
au_do_open_sp_237_locked(t) ==
    /\ pc[t] = "sp_237"
    /\ IF failed(err[t])
       THEN goto(t, "sp_out") /\ UNCHANGED <<fbstart, h_fptr, err, h_file, hist>>
       ELSE \E ok \in BOOLEAN :
               /\ au_do_open_nondir(t, ok)
               /\ h_file' = [h_file EXCEPT ![t] = IF ok THEN dbstart ELSE @]
               /\ goto(t, IF ok THEN "sp_251" ELSE "sp_out")
    /\ UNCHANGED <<brv, dv, lockv, fopv, finfo, f_op, f_mode, nopen, bend,
                   bcpup, wbr>>

\* lines 237-246
au_do_open_sp_237(t) ==
    /\ pc[t] = "sp_237"
    /\ IF failed(err[t])
       THEN goto(t, "sp_out") /\ UNCHANGED <<fbstart, h_fptr, err, h_file, hist>>
       ELSE \E ok \in BOOLEAN :
               /\ au_do_open_nondir(t, ok)
               /\ h_file' = [h_file EXCEPT ![t] = IF ok THEN dbstart ELSE @]
               /\ goto(t, IF ok THEN "sp_247" ELSE "sp_out")
    /\ UNCHANGED <<brv, dv, lockv, fopv, finfo, f_op, f_mode, nopen, bend,
                   bcpup, wbr>>

\* line 247 left out: di_rwsem stays held while fi_rwsem is dropped
au_do_open_sp_247_keep(t) ==
    /\ pc[t] = "sp_247"
    /\ goto(t, "sp_248")
    /\ UNCHANGED <<brv, dv, lockv, fopv, filev, locv, hist>>

\* line 247: di_read_unlock(dentry, AuLock_IR)
au_do_open_sp_247(t) ==
    /\ pc[t] = "sp_247"
    /\ di' = [di EXCEPT !["dentry"] = rw_read_unlock(@, t)]
    /\ goto(t, "sp_248")
    /\ UNCHANGED <<brv, dv, si, fi, pinned, fopv, filev, locv, hist>>

\* line 248: fi_write_unlock(file)
au_do_open_sp_248(t) ==
    /\ pc[t] = "sp_248"
    /\ fi' = [fi EXCEPT ![t] = rw_write_unlock(@, t)]
    /\ goto(t, "sp_249")
    /\ UNCHANGED <<brv, dv, si, di, pinned, fopv, filev, locv, hist>>

\* line 249 left out: si_rwsem stays held over the native open
au_do_open_sp_249_keep(t) ==
    /\ pc[t] = "sp_249"
    /\ goto(t, "sp_251")
    /\ UNCHANGED <<brv, dv, lockv, fopv, filev, locv, hist>>

\* line 249: si_read_unlock(sb)
au_do_open_sp_249(t) ==
    /\ pc[t] = "sp_249"
    /\ si' = si \ {t}
    /\ goto(t, "sp_251")
    /\ UNCHANGED <<brv, dv, di, fi, pinned, fopv, filev, locv, hist>>

\* line 251: the call of h_inode->i_fop->open
au_do_open_sp_251(t) ==
    /\ pc[t] = "sp_251"
    /\ hist' = [hist EXCEPT ![t].h_open = TRUE]
    /\ goto(t, "h_open")
    /\ UNCHANGED <<brv, dv, lockv, fopv, filev, locv>>

\* the branch's native open returns (it may have blocked for a peer)
h_open_return(t) ==
    /\ pc[t] = "h_open"
    /\ \E e \in {"OK", "EH_OPEN"} :
          /\ err' = [err EXCEPT ![t] = e]
          /\ hist' = [hist EXCEPT ![t].h_ret = e]
    /\ goto(t, "sp_252")
    /\ UNCHANGED <<brv, dv, lockv, fopv, filev, bend, bcpup, h_file, wbr>>

\* line 252: si_noflush_read_lock(sb)
au_do_open_sp_252(t) ==
    /\ pc[t] = "sp_252"
    /\ si' = si \cup {t}
    /\ goto(t, "sp_253")
    /\ UNCHANGED <<brv, dv, di, fi, pinned, fopv, filev, locv, hist>>

\* line 253: fi_write_lock(file)
au_do_open_sp_253(t) ==
    /\ pc[t] = "sp_253"
    /\ can_write(fi[t])
    /\ fi' = [fi EXCEPT ![t] = rw_write_lock(@, t)]
    /\ goto(t, "sp_254")
    /\ UNCHANGED <<brv, dv, si, di, pinned, fopv, filev, locv, hist>>

\* line 254: di_read_lock_child(dentry, AuLock_IR)
au_do_open_sp_254(t) ==
    /\ pc[t] = "sp_254"
    /\ can_read(di["dentry"])
    /\ di' = [di EXCEPT !["dentry"] = rw_read_lock(@, t)]
    /\ goto(t, "sp_255")
    /\ UNCHANGED <<brv, dv, si, fi, pinned, fopv, filev, locv, hist>>

\* au_finfo_fin(file): drops the branch-resident handles and the finfo
au_finfo_fin(t) ==
    /\ finfo' = [finfo EXCEPT ![t] = "freed"]
    /\ h_fptr' = [h_fptr EXCEPT ![t] = {}]
    /\ fbstart' = [fbstart EXCEPT ![t] = -1]

\* lines 255-257 without the test of err: the table is installed whatever
\* the native open returned
au_do_open_sp_255_noerr(t) ==
    /\ pc[t] = "sp_255"
    /\ \E m \in Modes : f_mode' = [f_mode EXCEPT ![t] = m]
    /\ goto(t, "fop_126")
    /\ UNCHANGED <<brv, dv, lockv, fopv, finfo, h_fptr, fbstart, f_op, nopen,
                   locv, hist>>

\* lines 255-260.  The access mode the file was opened with is an input of
\* the open that nothing reads before au_init_fop_sp: it is drawn here.
au_do_open_sp_255(t) ==
    /\ pc[t] = "sp_255"
    /\ IF err[t] = "OK"
       THEN /\ \E m \in Modes : f_mode' = [f_mode EXCEPT ![t] = m]
            /\ goto(t, "fop_126")
            /\ UNCHANGED <<finfo, h_fptr, fbstart, hist>>
       ELSE /\ au_finfo_fin(t)
            /\ hist' = [hist EXCEPT ![t].fin = @ + 1]
            /\ goto(t, "sp_out")
            /\ UNCHANGED f_mode
    /\ UNCHANGED <<brv, dv, lockv, fopv, f_op, nopen, locv>>

\* -------------------------------------------------------- au_init_fop_sp
\* lines 141-153: the slot of the file's access mode
slot_of(m) ==
    CASE m = "R"  -> AuSp_FIFO_R
      [] m = "W"  -> AuSp_FIFO_W
      [] m = "RW" -> AuSp_FIFO_RW

\* *h_file->f_op, the branch's FIFO operations for an access mode
h_fop(m) == [aio_read  |-> IF m \in {"R", "RW"} THEN "h" ELSE "null",
             aio_write |-> IF m \in {"W", "RW"} THEN "h" ELSE "null",
             release   |-> "h"]

\* one lock for every slot: &au_sp_fop->spin in place of &p->spin
slot_spin_shared(i) == AuSp_FIFO

\* &p->spin at lines 159 and 169: each slot has its own lock
slot_spin(i) == i

\* lines 125-126
au_init_fop_sp_126(t) ==
    /\ pc[t] = "fop_126"
    /\ hist' = [hist EXCEPT ![t].fast = au_sp_fop[slot_of(f_mode[t])].done = 1,
                            ![t].nspin = 0]
    /\ goto(t, IF au_sp_fop[AuSp_FIFO].done = 0 THEN "fop_130" ELSE "fop_156")
    /\ UNCHANGED <<brv, dv, lockv, fopv, filev, locv>>

\* line 130: spin_lock(&spin)
au_init_fop_sp_130(t) ==
    /\ pc[t] = "fop_130"
    /\ spin[AuSp_Last] = {}
    /\ spin' = [spin EXCEPT ![AuSp_Last] = {t}]
    /\ hist' = [hist EXCEPT ![t].nspin = @ + 1]
    /\ goto(t, "fop_131")
    /\ UNCHANGED <<brv, dv, lockv, au_sp_fop, filev, locv>>

\* lines 131-137: spin_lock_init of every slot, then p->done = 1
au_init_fop_sp_131(t) ==
    /\ pc[t] = "fop_131"
    /\ IF au_sp_fop[AuSp_FIFO].done = 0
       THEN /\ spin' = [i \in AuSp_FIFO..AuSp_Last |->
                          IF i \in Slots THEN {} ELSE spin[i]]
            /\ au_sp_fop' = [au_sp_fop EXCEPT ![AuSp_FIFO].done = 1]
       ELSE UNCHANGED <<spin, au_sp_fop>>
    /\ goto(t, "fop_138")
    /\ UNCHANGED <<brv, dv, lockv, filev, locv, hist>>

\* line 138: spin_unlock(&spin)
au_init_fop_sp_138(t) ==
    /\ pc[t] = "fop_138"
    /\ spin' = [spin EXCEPT ![AuSp_Last] = @ \ {t}]
    /\ goto(t, "fop_156")
    /\ UNCHANGED <<brv, dv, lockv, au_sp_fop, filev, locv, hist>>

\* lines 141-158
au_init_fop_sp_156(t) ==
    /\ pc[t] = "fop_156"
    /\ IF au_sp_fop[slot_of(f_mode[t])].done = 0
       THEN /\ h_file' = [h_file EXCEPT ![t] = fbstart[t]]
            /\ goto(t, "fop_159")
       ELSE goto(t, "fop_171") /\ UNCHANGED h_file
    /\ UNCHANGED <<brv, dv, lockv, fopv, filev, bend, bcpup, err, wbr, hist>>

\* line 159: spin_lock(&p->spin)
au_init_fop_sp_159(t) ==
    /\ pc[t] = "fop_159"
    /\ spin[slot_spin(slot_of(f_mode[t]))] = {}
    /\ spin' = [spin EXCEPT ![slot_spin(slot_of(f_mode[t]))] = {t}]
    /\ hist' = [hist EXCEPT ![t].nspin = @ + 1]
    /\ goto(t, "fop_160")
    /\ UNCHANGED <<brv, dv, lockv, au_sp_fop, filev, locv>>

\* line 160 without the re-check
slot_todo_always(i) == TRUE

\* line 160: the re-check under the slot's lock
slot_todo(i) == au_sp_fop[i].done = 0

\* lines 160-161 with p->done = 1 of line 167 moved up to the copy
au_init_fop_sp_160_early(t) ==
    /\ pc[t] = "fop_160"
    /\ LET i == slot_of(f_mode[t])
           h == h_fop(f_mode[t]) IN
       IF slot_todo(i)
       THEN /\ au_sp_fop' = [au_sp_fop EXCEPT ![i].aio_read = h.aio_read,
                                               ![i].aio_write = h.aio_write,
                                               ![i].release = h.release,
                                               ![i].built = @ + 1,
                                               ![i].done = 1]
            /\ goto(t, "fop_162")
       ELSE goto(t, "fop_169") /\ UNCHANGED au_sp_fop
    /\ UNCHANGED <<brv, dv, lockv, spin, filev, locv, hist>>

\* lines 160-161: if (!p->done) p->fop = *h_file->f_op
au_init_fop_sp_160(t) ==
    /\ pc[t] = "fop_160"
    /\ LET i == slot_of(f_mode[t])
           h == h_fop(f_mode[t]) IN
       IF slot_todo(i)
       THEN /\ au_sp_fop' = [au_sp_fop EXCEPT ![i].aio_read = h.aio_read,
                                               ![i].aio_write = h.aio_write,
                                               ![i].release = h.release,
                                               ![i].built = @ + 1]
            /\ goto(t, "fop_162")
       ELSE goto(t, "fop_169") /\ UNCHANGED au_sp_fop
    /\ UNCHANGED <<brv, dv, lockv, spin, filev, locv, hist>>

\* lines 162-166: the delegating entry points
au_init_fop_sp_162(t) ==
    /\ pc[t] = "fop_162"
    /\ LET i == slot_of(f_mode[t]) IN
       au_sp_fop' = [au_sp_fop EXCEPT
            ![i].aio_read = IF @ # "null" THEN "aufs_aio_read_sp" ELSE @,
            ![i].aio_write = IF @ # "null" THEN "aufs_aio_write_sp" ELSE @,
            ![i].release = "aufs_release_sp"]
    /\ goto(t, "fop_167")
    /\ UNCHANGED <<brv, dv, lockv, spin, filev, locv, hist>>

\* line 167: p->done = 1
au_init_fop_sp_167(t) ==
    /\ pc[t] = "fop_167"
    /\ au_sp_fop' = [au_sp_fop EXCEPT ![slot_of(f_mode[t])].done = 1]
    /\ goto(t, "fop_169")
    /\ UNCHANGED <<brv, dv, lockv, spin, filev, locv, hist>>

\* line 169: spin_unlock(&p->spin)
au_init_fop_sp_169(t) ==
    /\ pc[t] = "fop_169"
    /\ spin' = [spin EXCEPT ![slot_spin(slot_of(f_mode[t]))] = @ \ {t}]
    /\ goto(t, "fop_171")
    /\ UNCHANGED <<brv, dv, lockv, au_sp_fop, filev, locv, hist>>

\* line 171: file->f_op = &p->fop; au_do_open_sp returns 0 (line 257)
au_init_fop_sp_171(t) ==
    /\ pc[t] = "fop_171"
    /\ f_op' = [f_op EXCEPT ![t] = slot_of(f_mode[t])]
    /\ goto(t, "sp_out")
    /\ UNCHANGED <<brv, dv, lockv, fopv, finfo, fbstart, h_fptr, f_mode,
                   nopen, locv, hist>>

\* ----------------------------------------------- au_do_open, on return
\* au_do_open_sp has returned: the locks are dropped, and the finfo too
\* when the open failed
au_do_open_leave(t) ==
    /\ pc[t] = "sp_out"
    /\ fi' = [fi EXCEPT ![t] = rw_write_unlock(@, t)]
    /\ di' = [di EXCEPT !["dentry"] = rw_read_unlock(@, t)]
    /\ si' = si \ {t}
    /\ IF err[t] # "OK" /\ finfo[t] = "live"
       THEN au_finfo_fin(t)
       ELSE UNCHANGED <<finfo, h_fptr, fbstart>>
    /\ goto(t, IF err[t] = "OK" THEN "opened" ELSE "idle")
    /\ return(t)
    /\ UNCHANGED <<brv, dv, pinned, fopv, f_op, f_mode, nopen>>

\* ------------------------------------------------------- aufs_release_sp
\* line 91: fi_read_lock(file)
aufs_release_sp_91(t) ==
    /\ pc[t] = "opened"
    /\ can_read(fi[t])
    /\ fi' = [fi EXCEPT ![t] = rw_read_lock(@, t)]
    /\ goto(t, "rel_92")
    /\ UNCHANGED <<brv, dv, si, di, pinned, fopv, filev, locv, hist>>

\* line 91 when release is called on a file that was already released:
\* file's finfo, and the fi_rwsem in it, are freed memory
aufs_release_sp_again(t) ==
    /\ pc[t] = "closed"
    /\ finfo[t] = "freed"
    /\ hist' = [hist EXCEPT ![t] = [NoHist EXCEPT !.again = TRUE,
                                                  !.uaf = TRUE]]
    /\ \E l \in {"rel_92", "oops"} : goto(t, l)
    /\ UNCHANGED <<brv, dv, lockv, fopv, filev, locv>>

\* line 92: h_file = au_h_fptr(file, au_fbstart(file)); -1 is NULL
aufs_release_sp_92(t) ==
    /\ pc[t] = "rel_92"
    /\ IF finfo[t] = "live"
       THEN /\ h_file' = [h_file EXCEPT ![t] =
                             IF fbstart[t] \in h_fptr[t] THEN fbstart[t] ELSE -1]
            /\ UNCHANGED hist
       ELSE /\ \E h \in Branches \cup {-1} : h_file' = [h_file EXCEPT ![t] = h]
            /\ hist' = [hist EXCEPT ![t].uaf = TRUE]
    /\ goto(t, "rel_93")
    /\ UNCHANGED <<brv, dv, lockv, fopv, filev, bend, bcpup, err, wbr>>

\* line 93: fi_read_unlock(file)
aufs_release_sp_93(t) ==
    /\ pc[t] = "rel_93"
    /\ fi' = [fi EXCEPT ![t] = rw_read_unlock(@, t)]
    /\ goto(t, "rel_95")
    /\ UNCHANGED <<brv, dv, si, di, pinned, fopv, filev, locv, hist>>

\* line 95: err = h_file->f_op->release(inode, file)
aufs_release_sp_95(t) ==
    /\ pc[t] = "rel_95"
    /\ IF h_file[t] = -1
       THEN goto(t, "oops") /\ UNCHANGED <<err, hist>>
       ELSE \E e \in {"OK", "EH_RELEASE"} :
               /\ err' = [err EXCEPT ![t] = e]
               /\ hist' = [hist EXCEPT ![t].rel = e]
               /\ goto(t, "rel_96")
    /\ UNCHANGED <<brv, dv, lockv, fopv, filev, bend, bcpup, h_file, wbr>>

\* aufs_release_nondir(inode, file): the generic teardown; its result
aufs_release_nondir(t, e) ==
    /\ au_finfo_fin(t)
    /\ hist' = [hist EXCEPT ![t].td = @ + 1, ![t].td_err = e]

\* line 96 made conditional: no teardown after a failed native release
aufs_release_sp_96_onok(t) ==
    /\ pc[t] = "rel_96"
    /\ IF err[t] = "OK"
       THEN \E e \in {"OK", "ETEARDOWN"} : aufs_release_nondir(t, e)
       ELSE UNCHANGED <<finfo, h_fptr, fbstart, hist>>
    /\ goto(t, "rel_97")
    /\ UNCHANGED <<brv, dv, lockv, fopv, f_op, f_mode, nopen, locv>>

\* line 96: aufs_release_nondir(inode, file);  (result ignored)
aufs_release_sp_96(t) ==
    /\ pc[t] = "rel_96"
    /\ \E e \in {"OK", "ETEARDOWN"} : aufs_release_nondir(t, e)
    /\ goto(t, "rel_97")
    /\ UNCHANGED <<brv, dv, lockv, fopv, f_op, f_mode, nopen, locv>>

\* line 97: return err
aufs_release_sp_97(t) ==
    /\ pc[t] = "rel_97"
    /\ goto(t, "closed")
    /\ return(t)
    /\ UNCHANGED <<brv, dv, lockv, fopv, filev>>

\* -------------------------------- aufs_aio_read_sp and aufs_aio_write_sp
\* lines 39 and 67: si_read_lock(sb, AuLock_FLUSH); op is "read" or "write"
aufs_aio_sp_si(t, op) ==
    /\ pc[t] = "opened"
    /\ (op = "read") => au_sp_fop[f_op[t]].aio_read = "aufs_aio_read_sp"
    /\ (op = "write") => au_sp_fop[f_op[t]].aio_write = "aufs_aio_write_sp"
    /\ si' = si \cup {t}
    /\ goto(t, op \o "_fi")
    /\ UNCHANGED <<brv, dv, di, fi, pinned, fopv, filev, locv, hist>>

\* lines 40 and 68: fi_read_lock(file)
aufs_aio_sp_fi(t, op) ==
    /\ pc[t] = op \o "_fi"
    /\ can_read(fi[t])
    /\ fi' = [fi EXCEPT ![t] = rw_read_lock(@, t)]
    /\ goto(t, op \o "_fiu")
    /\ UNCHANGED <<brv, dv, si, di, pinned, fopv, filev, locv, hist>>

\* lines 41-43 and 69-71: resolve bstart and h_file, fi_read_unlock(file)
aufs_aio_sp_fiu(t, op) ==
    /\ pc[t] = op \o "_fiu"
    /\ h_file' = [h_file EXCEPT ![t] = fbstart[t]]
    /\ fi' = [fi EXCEPT ![t] = rw_read_unlock(@, t)]
    /\ goto(t, op \o "_siu")
    /\ UNCHANGED <<brv, dv, si, di, pinned, fopv, filev, bend, bcpup, err,
                   wbr, hist>>

\* lines 45 and 73 left out: si_rwsem stays held over the branch's I/O
aufs_aio_sp_siu_keep(t, op) ==
    /\ pc[t] = op \o "_siu"
    /\ wbr' = [wbr EXCEPT ![t] = ~br_rdonly[h_file[t]]]
    /\ goto(t, op \o "_h")
    /\ UNCHANGED <<brv, dv, lockv, fopv, filev, bend, bcpup, err, h_file, hist>>

\* lines 44-45 and 72-73: wbr, si_read_unlock(sb)
aufs_aio_sp_siu(t, op) ==
    /\ pc[t] = op \o "_siu"
    /\ wbr' = [wbr EXCEPT ![t] = ~br_rdonly[h_file[t]]]
    /\ si' = si \ {t}
    /\ goto(t, op \o "_h")
    /\ UNCHANGED <<brv, dv, di, fi, pinned, fopv, filev, bend, bcpup, err,
                   h_file, hist>>

\* lines 50 and 78 without the test of wbr
aufs_aio_sp_h_nowbr(t, op) ==
    /\ pc[t] = op \o "_h"
    /\ \E e \in {"N", "ZERO", "EH_IO"} :
          /\ err' = [err EXCEPT ![t] = e]
          /\ hist' = [hist EXCEPT ![t].stamp =
                          IF e = "N"
                          THEN (IF op = "read" THEN "atime" ELSE "mtime")
                          ELSE "none"]
    /\ goto(t, op \o "_ret")
    /\ UNCHANGED <<brv, dv, lockv, fopv, filev, bend, bcpup, h_file, wbr>>

\* lines 48-51 and 76-79: the branch's aio_read / aio_write, the time stamp;
\* "N" is a count > 0, "ZERO" is 0
aufs_aio_sp_h(t, op) ==
    /\ pc[t] = op \o "_h"
    /\ \E e \in {"N", "ZERO", "EH_IO"} :
          /\ err' = [err EXCEPT ![t] = e]
          /\ hist' = [hist EXCEPT ![t].stamp =
                          IF e = "N" /\ wbr[t]
                          THEN (IF op = "read" THEN "atime" ELSE "mtime")
                          ELSE "none"]
    /\ goto(t, op \o "_ret")
    /\ UNCHANGED <<brv, dv, lockv, fopv, filev, bend, bcpup, h_file, wbr>>

\* lines 53 and 81: return err
aufs_aio_sp_ret(t, op) ==
    /\ pc[t] = op \o "_ret"
    /\ goto(t, "opened")
    /\ return(t)
    /\ UNCHANGED <<brv, dv, lockv, fopv, filev>>

\* --------------------------------------------------------- specification
Open(t) ==
    \/ au_do_open_enter(t)
    \/ au_do_open_sp_218(t) \/ au_do_open_sp_229(t) \/ au_do_open_sp_230(t)
    \/ au_do_open_sp_231(t)
    \/ au_cpup_sp_184(t) \/ au_cpup_sp_185(t) \/ au_cpup_sp_191(t)
    \/ au_cpup_sp_194(t) \/ au_cpup_sp_195(t) \/ au_cpup_sp_199(t)
    \/ au_do_open_sp_233(t) \/ au_do_open_sp_237(t)
    \/ au_do_open_sp_247(t) \/ au_do_open_sp_248(t) \/ au_do_open_sp_249(t)
    \/ au_do_open_sp_251(t) \/ h_open_return(t)
    \/ au_do_open_sp_252(t) \/ au_do_open_sp_253(t) \/ au_do_open_sp_254(t)
    \/ au_do_open_sp_255(t)
    \/ au_init_fop_sp_126(t) \/ au_init_fop_sp_130(t) \/ au_init_fop_sp_131(t)
    \/ au_init_fop_sp_138(t) \/ au_init_fop_sp_156(t) \/ au_init_fop_sp_159(t)
    \/ au_init_fop_sp_160(t) \/ au_init_fop_sp_162(t)
    \/ au_init_fop_sp_167(t) \/ au_init_fop_sp_169(t) \/ au_init_fop_sp_171(t)
    \/ au_do_open_leave(t)

Release(t) ==
    \/ aufs_release_sp_91(t) \/ aufs_release_sp_92(t) \/ aufs_release_sp_93(t)
    \/ aufs_release_sp_95(t) \/ aufs_release_sp_96(t) \/ aufs_release_sp_97(t)

Aio(t) ==
    \E op \in {"read", "write"} :
       \/ aufs_aio_sp_si(t, op) \/ aufs_aio_sp_fi(t, op)
       \/ aufs_aio_sp_fiu(t, op) \/ aufs_aio_sp_siu(t, op)
       \/ aufs_aio_sp_h(t, op) \/ aufs_aio_sp_ret(t, op)

Next == \E t \in Threads : Open(t) \/ Release(t) \/ Aio(t)

Spec == Init /\ [][Next]_vars

\* the same program with a caller that may release a file twice
NextAgain == Next \/ \E t \in Threads : aufs_release_sp_again(t)

SpecAgain == Init /\ [][NextAgain]_vars

\* ------------------------------------------------ reads and writes alone
\* The files are open, each on the entry's start branch with the table of
\* its access mode installed, and the branches' permissions are whatever a
\* remount has left them: lines 44 and 72 read the permission at every call.
opened_fop(m) ==
    [done |-> 1,
     aio_read  |-> IF h_fop(m).aio_read # "null"
                   THEN "aufs_aio_read_sp" ELSE "null",
     aio_write |-> IF h_fop(m).aio_write # "null"
                   THEN "aufs_aio_write_sp" ELSE "null",
     release |-> "aufs_release_sp", built |-> 1]

InitIo ==
    /\ dbstart \in Branches
    /\ br_rdonly \in [Branches -> BOOLEAN]
    /\ h_dptr = {dbstart}
    /\ h_parent = Branches
    /\ ncpup = [b \in Branches |-> 0]
    /\ si = {}
    /\ di = [d \in {"dentry", "parent"} |-> Unlocked]
    /\ fi = [f \in Threads |-> Unlocked]
    /\ pinned = {}
    /\ spin = [i \in AuSp_FIFO..AuSp_Last |-> {}]
    /\ f_mode \in [Threads -> Modes]
    /\ au_sp_fop = [i \in Slots |->
                      IF \E f \in Threads : slot_of(f_mode[f]) = i
                      THEN opened_fop(CHOOSE m \in Modes : slot_of(m) = i)
                      ELSE [done |-> IF i = AuSp_FIFO THEN 1 ELSE 0,
                            aio_read |-> "null", aio_write |-> "null",
                            release |-> "null", built |-> 0]]
    /\ finfo = [f \in Threads |-> "live"]
    /\ fbstart = [f \in Threads |-> dbstart]
    /\ h_fptr = [f \in Threads |-> {dbstart}]
    /\ f_op = [f \in Threads |-> slot_of(f_mode[f])]
    /\ nopen = [t \in Threads |-> MaxOpen]
    /\ pc = [t \in Threads |-> "opened"]
    /\ bend = [t \in Threads |-> -1]
    /\ bcpup = [t \in Threads |-> -1]
    /\ err = [t \in Threads |-> "OK"]
    /\ h_file = [t \in Threads |-> -1]
    /\ wbr = [t \in Threads |-> FALSE]
    /\ hist = [t \in Threads |-> NoHist]

NextIo == \E t \in Threads : Aio(t)

SpecIo == InitIo /\ [][NextIo]_vars

\* ------------------------------------------- two ends of one pipe, fairly
\* The threads open the two ends of the FIFO: odd threads for reading, even
\* threads for writing.  The branch's open of one end returns 0 only when
\* another thread has called the branch's open of the other end; it may
\* return an error (a signal) at any time.
End(t) == IF t % 2 = 1 THEN "R" ELSE "W"

PeerIn(t) ==
    \E u \in Threads \ {t} :
        End(u) # End(t) /\ (hist[u].h_open \/ f_op[u] # AuSp_FIFO)

\* the native open of a FIFO end: 0 needs the peer
h_open_peer(t) ==
    /\ h_open_return(t)
    /\ err'[t] = "OK" => PeerIn(t)

\* lines 255-260 for a file opened with the access mode of its end
au_do_open_sp_255_end(t) ==
    /\ au_do_open_sp_255(t)
    /\ pc'[t] = "fop_126" => f_mode'[t] = End(t)

OpenPipe(t) ==
    \/ au_do_open_enter(t)
    \/ au_do_open_sp_218(t) \/ au_do_open_sp_229(t) \/ au_do_open_sp_230(t)
    \/ au_do_open_sp_231(t)
    \/ au_cpup_sp_184(t) \/ au_cpup_sp_185(t) \/ au_cpup_sp_191(t)
    \/ au_cpup_sp_194(t) \/ au_cpup_sp_195(t) \/ au_cpup_sp_199(t)
    \/ au_do_open_sp_233(t) \/ au_do_open_sp_237(t)
    \/ au_do_open_sp_247(t) \/ au_do_open_sp_248(t) \/ au_do_open_sp_249(t)
    \/ au_do_open_sp_251(t) \/ h_open_peer(t)
    \/ au_do_open_sp_252(t) \/ au_do_open_sp_253(t) \/ au_do_open_sp_254(t)
    \/ au_do_open_sp_255_end(t)
    \/ au_init_fop_sp_126(t) \/ au_init_fop_sp_130(t) \/ au_init_fop_sp_131(t)
    \/ au_init_fop_sp_138(t) \/ au_init_fop_sp_156(t) \/ au_init_fop_sp_159(t)
    \/ au_init_fop_sp_160(t) \/ au_init_fop_sp_162(t)
    \/ au_init_fop_sp_167(t) \/ au_init_fop_sp_169(t) \/ au_init_fop_sp_171(t)
    \/ au_do_open_leave(t)

NextPipe == \E t \in Threads : OpenPipe(t) \/ Release(t) \/ Aio(t)

\* a thread inside an open is scheduled, and a lock that stays free is
\* granted; nothing promises a signal to a thread inside the native open
OpenStep(t) ==
    /\ pc[t] \notin {"idle", "closed"}
    /\ OpenPipe(t)
    /\ ~(pc[t] = "h_open" /\ err'[t] # "OK")

SpecPipe ==
    Init /\ [][NextPipe]_vars /\ \A t \in Threads : WF_vars(OpenStep(t))

\* ================================================================ claims
WritableAbove(b) == {i \in Branches : i < b /\ ~br_rdonly[i]}
TopWritable(b)   == CHOOSE i \in WritableAbove(b) :
                        \A j \in WritableAbove(b) : i <= j
StepErrs == {"ECPUP_DIRS", "EPIN", "ECPUP_SIMPLE", "EOPEN_NONDIR", "EH_OPEN"}
CpupErrs == {"ECPUP_DIRS", "EPIN", "ECPUP_SIMPLE"}

\* C1: an open that found the start branch bend read-only with a writable
\* branch above it returns an error only if a copy-up or open step failed,
\* and when it returns 0 the dentry's and the file's start branch are the
\* smallest writable index below bend.
TheoremC1 ==
    \A t \in Threads :
        (pc[t] = "sp_out" /\ bend[t] >= 0 /\ br_rdonly[bend[t]]
         /\ WritableAbove(bend[t]) # {})
        => /\ err[t] \in {"OK"} \cup StepErrs
           /\ err[t] = "OK" =>
                 /\ dbstart = TopWritable(bend[t])
                 /\ fbstart[t] = TopWritable(bend[t])
                 /\ h_fptr[t] = {TopWritable(bend[t])}

WitnessC1 ==
    \E t \in Threads :
        /\ pc[t] = "sp_out" /\ err[t] = "OK" /\ hist[t].cpup
        /\ br_rdonly[bend[t]] /\ Cardinality(WritableAbove(bend[t])) >= 2
        /\ dbstart = TopWritable(bend[t])

\* C2: an open that found the start branch read-only with no writable branch
\* above it goes straight to its exit with EROFS: no copy-up, no
\* au_do_open_nondir, no native open, no handle slot set, the start branch
\* unchanged and the FIFO default operations still installed.
TheoremC2 ==
    \A t \in Threads :
        (bend[t] >= 0 /\ br_rdonly[bend[t]] /\ WritableAbove(bend[t]) = {})
        => /\ pc[t] \in {"sp_237", "sp_out"}
           /\ err[t] = "EROFS"
           /\ ~hist[t].cpup /\ ~hist[t].nondir /\ ~hist[t].h_open
           /\ h_fptr[t] = {}
           /\ dbstart = bend[t]
           /\ f_op[t] = AuSp_FIFO

WitnessC2 ==
    \E t \in Threads :
        /\ pc[t] = "sp_out" /\ err[t] = "EROFS"
        /\ br_rdonly[bend[t]] /\ WritableAbove(bend[t]) = {}

\* C3: au_sio_cpup_simple creates the entry in a branch at most once; a
\* thread inside au_cpup_sp before the creation finds no entry there yet;
\* an open that chose a target and returned 0 leaves exactly one creation.
TheoremC3 ==
    /\ \A b \in Branches : ncpup[b] <= 1
    /\ \A t \in Threads :
          /\ pc[t] \in {"cpup_184", "cpup_185", "cpup_191", "cpup_194"}
                => ncpup[bcpup[t]] = 0 /\ bcpup[t] \notin h_dptr
          /\ (pc[t] = "sp_237" /\ bcpup[t] >= 0 /\ err[t] = "OK")
                => ncpup[bcpup[t]] = 1 /\ dbstart = bcpup[t]

\* two openers chose the same target; one copied up, the other took the
\* exclusive lock later and skipped the copy-up
WitnessC3 ==
    \E t, u \in Threads :
        /\ t # u /\ bcpup[t] >= 0 /\ bcpup[t] = bcpup[u]
        /\ hist[t].cpup /\ err[t] = "OK"
        /\ pc[u] = "sp_233" /\ ~hist[u].cpup
        /\ ncpup[bcpup[u]] = 1

\* C4: each slot's table is constructed at most once; a file with a
\* delegation table installed has the slot of its access mode, so files of
\* the same mode share one instance and files of different modes do not.
Installed(f) == f_op[f] # AuSp_FIFO

TheoremC4 ==
    /\ \A i \in Slots : au_sp_fop[i].built <= 1
    /\ \A f \in Threads :
          Installed(f) => /\ au_sp_fop[f_op[f]].built = 1
                          /\ au_sp_fop[f_op[f]].done = 1
    /\ \A f, g \in Threads :
          (Installed(f) /\ Installed(g))
          => ((f_mode[f] = f_mode[g]) <=> (f_op[f] = f_op[g]))

\* one file has the table installed while a concurrent opener of the same
\* mode, which saw the slot unset, is at the re-check under the slot's lock
WitnessC4 ==
    \E t, u \in Threads :
        /\ t # u /\ Installed(t) /\ f_mode[t] = f_mode[u]
        /\ pc[u] = "fop_160" /\ au_sp_fop[f_op[t]].built = 1

\* C5: a thread that holds a slot's lock for the construction of class A
\* never holds the lock an opener of another class is about to take, and an
\* opener that entered au_init_fop_sp with its slot done takes no lock.
InConstruction(t) == pc[t] \in {"fop_160", "fop_162", "fop_167", "fop_169"}

TheoremC5 ==
    /\ \A t, u \in Threads :
          (InConstruction(t) /\ slot_of(f_mode[u]) # slot_of(f_mode[t]))
          => /\ pc[u] = "fop_130" => t \notin spin[AuSp_Last]
             /\ pc[u] = "fop_159" => t \notin spin[slot_spin(slot_of(f_mode[u]))]
    /\ \A u \in Threads :
          hist[u].fast => /\ hist[u].nspin = 0
                          /\ pc[u] \in {"fop_156", "fop_171", "sp_out"}

WitnessC5 ==
    \E t, u \in Threads :
        /\ pc[t] = "fop_162" /\ pc[u] = "fop_159"
        /\ slot_of(f_mode[u]) # slot_of(f_mode[t])

\* C6: a release of a file that was already released reads no freed state,
\* does not tear the file down again and returns an error.
CounterC6 ==
    \A t \in Threads :
        hist[t].again => /\ ~hist[t].uaf
                         /\ hist[t].td = 0
                         /\ pc[t] = "rel_97" => err[t] # "OK"

\* C7: release of an open file calls the native release, then always the
\* teardown, and returns the native release's result.
TheoremC7 ==
    \A t \in Threads :
        /\ pc[t] # "oops"
        /\ pc[t] = "rel_96" => /\ hist[t].rel # "none" /\ hist[t].td = 0
                               /\ finfo[t] = "live"
        /\ pc[t] = "rel_97" => /\ hist[t].rel # "none" /\ hist[t].td = 1
                               /\ finfo[t] = "freed" /\ h_fptr[t] = {}
                               /\ err[t] = hist[t].rel

\* the native release failed, the teardown ran and reported success
WitnessC7 ==
    \E t \in Threads :
        /\ pc[t] = "rel_97" /\ err[t] = "EH_RELEASE"
        /\ hist[t].td = 1 /\ hist[t].td_err = "OK" /\ finfo[t] = "freed"

\* C8: after a failed copy-up step the open goes to its exit with that
\* error: no au_do_open_nondir, no native open, no handle slot, no
\* delegation table, the start branch still the read-only bend, from which
\* a new scan finds the same target.
TheoremC8 ==
    \A t \in Threads :
        err[t] \in CpupErrs
        => /\ pc[t] \in {"cpup_195", "cpup_199", "sp_233", "sp_237", "sp_out"}
           /\ hist[t].cpup /\ ~hist[t].nondir /\ ~hist[t].h_open
           /\ h_fptr[t] = {} /\ fbstart[t] = -1 /\ f_op[t] = AuSp_FIFO
           /\ dbstart = bend[t] /\ br_rdonly[dbstart]
           /\ WritableAbove(dbstart) # {} /\ TopWritable(dbstart) = bcpup[t]

WitnessC8 ==
    \E t \in Threads :
        /\ pc[t] = "sp_out" /\ err[t] = "ECPUP_SIMPLE"
        /\ dbstart = bend[t] /\ bcpup[t] \notin h_dptr

\* C9 as claimed: inside the native open the opener holds si_rwsem shared
\* and neither di_rwsem nor fi_rwsem.
CounterC9 ==
    \A t \in Threads :
        pc[t] = "h_open" => /\ HoldsSi(t)
                            /\ ~HoldsDi(t, "dentry") /\ ~HoldsDi(t, "parent")
                            /\ ~HoldsFi(t)

\* C9 as amended: inside the native open the opener holds none of the
\* locks, si_rwsem included.
TheoremC9 ==
    \A t \in Threads :
        pc[t] = "h_open" => /\ ~HoldsSi(t)
                            /\ ~HoldsDi(t, "dentry") /\ ~HoldsDi(t, "parent")
                            /\ ~HoldsFi(t)
                            /\ t \notin pinned

WitnessC9 ==
    \E t \in Threads : pc[t] = "h_open" /\ hist[t].h_open /\ h_fptr[t] # {}

\* lock events of a step
AnyDi(t)    == HoldsDi(t, "dentry") \/ HoldsDi(t, "parent")
AcqSi(t)    == ~HoldsSi(t) /\ HoldsSi(t)'
RelSi(t)    == HoldsSi(t) /\ ~HoldsSi(t)'
AcqFi(t)    == ~HoldsFi(t) /\ HoldsFi(t)'
RelFi(t)    == HoldsFi(t) /\ ~HoldsFi(t)'
AcqDi(t, d) == ~HoldsDi(t, d) /\ HoldsDi(t, d)'
RelDi(t, d) == HoldsDi(t, d) /\ ~HoldsDi(t, d)'

TheoremC11 ==
    \A t \in Threads :
        /\ (pc[t] = "sp_out" /\ hist[t].h_ret \notin {"none", "OK"})
           => /\ err[t] = hist[t].h_ret
              /\ hist[t].fin = 1
              /\ h_fptr[t] = {} /\ fbstart[t] = -1 /\ finfo[t] = "freed"
              /\ f_op[t] = AuSp_FIFO
        /\ (pc[t] = "sp_out" /\ hist[t].h_ret \in {"none", "OK"})
           => hist[t].fin = 0
        /\ (pc[t] = "sp_out" /\ Installed(t))
           => hist[t].h_ret = "OK" /\ err[t] = "OK"
        /\ pc[t] \in {"fop_126", "fop_130", "fop_131", "fop_138", "fop_156",
                      "fop_159", "fop_160", "fop_162", "fop_167", "fop_169",
                      "fop_171"}
           => hist[t].h_ret = "OK"

\* the native open failed after au_do_open_nondir had stored a handle
WitnessC11 ==
    \E t \in Threads :
        /\ pc[t] = "sp_out" /\ hist[t].nondir /\ hist[t].h_ret = "EH_OPEN"
        /\ err[t] = "EH_OPEN" /\ h_fptr[t] = {}

\* C12: au_cpup_sp is called only by an open that found the start branch
\* read-only; an open that finds it writable, as every open does once a
\* copy-up has made a writable branch the start branch, chooses no target,
\* calls no copy-up and leaves the start branch as it found it.
TheoremC12 ==
    /\ \A t \in Threads :
          /\ hist[t].cpup => bend[t] >= 0 /\ br_rdonly[bend[t]]
          /\ (bend[t] >= 0 /\ ~br_rdonly[bend[t]])
             => /\ ~hist[t].cpup /\ bcpup[t] = -1
                /\ dbstart = bend[t]
                /\ pc[t] \notin {"sp_229", "sp_230", "sp_231", "cpup_184",
                                 "cpup_185", "cpup_191", "cpup_194", "cpup_195",
                                 "cpup_199", "sp_233"}
    /\ \A b \in Branches :
          ncpup[b] >= 1 => dbstart = b /\ ~br_rdonly[b]

\* one thread's open copied the entry up and that file was released; the
\* other thread's open, started on the promoted entry, has returned 0
WitnessC12 ==
    \E t, u \in Threads :
        /\ t # u /\ pc[u] = "closed" /\ ncpup[dbstart] = 1
        /\ pc[t] = "sp_out" /\ err[t] = "OK" /\ bend[t] = dbstart
        /\ ~hist[t].cpup /\ f_mode[t] = "R"

\* positions inside aufs_aio_read_sp and aufs_aio_write_sp
AioResolve == {"read_fi", "read_fiu", "read_siu",
               "write_fi", "write_fiu", "write_siu"}
AioNative  == {"read_h", "read_ret", "write_h", "write_ret"}

\* C13: read and write hold fi_rwsem only for the look-up of the handle and
\* si_rwsem only until the branch's permission is read, hold no lock while
\* the branch's aio_read or aio_write runs, never hold a di_rwsem or a pin,
\* and no step of theirs changes the file's start branch, handle array,
\* finfo or installed operations, whatever the branch's call returns.
TheoremC13 ==
    [][\A t \in Threads :
          /\ (pc[t] \in AioResolve \cup AioNative
                 \/ pc'[t] \in AioResolve \cup AioNative)
             => /\ fbstart'[t] = fbstart[t] /\ h_fptr'[t] = h_fptr[t]
                /\ f_op'[t] = f_op[t] /\ finfo'[t] = finfo[t]
                /\ f_mode'[t] = f_mode[t]
          /\ pc'[t] \in AioNative
             => /\ ~HoldsSi(t)' /\ ~HoldsFi(t)' /\ ~AnyDi(t)'
                /\ t \notin pinned'
          /\ pc'[t] \in AioResolve
             => /\ HoldsFi(t)' <=> pc'[t] \in {"read_fiu", "write_fiu"}
                /\ HoldsSi(t)'
                /\ ~AnyDi(t)' /\ t \notin pinned']_vars

\* a write whose branch call failed has returned to its caller's frame
WitnessC13 ==
    \E t \in Threads :
        /\ pc[t] = "write_ret" /\ err[t] = "EH_IO"
        /\ h_file[t] = fbstart[t] /\ fbstart[t] \in h_fptr[t]
        /\ Installed(t)

\* C14 as claimed: a write that did not fail refreshes mtime, on a writable
\* or a read-only branch and for any count; a read that did not fail
\* refreshes atime exactly on a writable branch; a failed call refreshes
\* nothing.
CounterC14 ==
    \A t \in Threads :
        /\ pc[t] = "write_ret"
           => (hist[t].stamp = "mtime" <=> err[t] \in {"N", "ZERO"})
        /\ pc[t] = "read_ret"
           => (hist[t].stamp = "atime"
                 <=> (err[t] \in {"N", "ZERO"} /\ ~br_rdonly[h_file[t]]))

\* C14 as amended: a write refreshes mtime, and a read atime, exactly when
\* the branch's call returned a count above zero and the serving branch is
\* writable; a call that failed or returned zero, and any call served by a
\* read-only branch, refreshes no time stamp.
TheoremC14 ==
    \A t \in Threads :
        /\ pc[t] = "write_ret"
           => /\ hist[t].stamp \in {"mtime", "none"}
              /\ hist[t].stamp = "mtime"
                    <=> (err[t] = "N" /\ ~br_rdonly[h_file[t]])
        /\ pc[t] = "read_ret"
           => /\ hist[t].stamp \in {"atime", "none"}
              /\ hist[t].stamp = "atime"
                    <=> (err[t] = "N" /\ ~br_rdonly[h_file[t]])

\* a write of some bytes served by a read-only branch: no time stamp
WitnessC14 ==
    \E t \in Threads :
        /\ pc[t] = "write_ret" /\ err[t] = "N"
        /\ br_rdonly[h_file[t]] /\ hist[t].stamp = "none"

InCpup(l) == l \in {"cpup_185", "cpup_191", "cpup_194", "cpup_195", "cpup_199"}

TheoremC16 ==
    [][/\ \A t \in Threads :
            /\ (di["parent"].w = {t})' <=> InCpup(pc'[t])
            /\ t \in pinned' <=> pc'[t] \in {"cpup_194", "cpup_195"}
            /\ RelDi(t, "parent")
               => pc[t] = "cpup_199" /\ pc'[t] = "sp_233" /\ t \notin pinned
            /\ (pc[t] = "cpup_199" /\ pc'[t] # "cpup_199")
               => RelDi(t, "parent")
            /\ (InCpup(pc[t]) /\ ~InCpup(pc'[t])) => pc[t] = "cpup_199"
            /\ (t \in pinned /\ t \notin pinned')
               => pc[t] = "cpup_195" /\ HoldsDi(t, "parent")'
            /\ (pc[t] = "cpup_194" /\ pc'[t] # "cpup_194")
               => t \in pinned /\ t \in pinned' /\ pc'[t] = "cpup_195"
            /\ (pc[t] = "cpup_185" /\ pc'[t] # "cpup_185")
               => ((bcpup[t] \notin h_parent)
                     <=> (h_parent' # h_parent \/ err'[t] = "ECPUP_DIRS"))
       /\ (ncpup' # ncpup \/ h_dptr' # h_dptr)
             => \E t \in Threads : pc[t] = "cpup_194" /\ t \in pinned
       /\ h_parent' # h_parent
             => \E t \in Threads : pc[t] = "cpup_185"]_vars

\* au_pin failed: au_cpup_sp has returned, the parent's lock released
WitnessC16 ==
    \E t \in Threads :
        /\ pc[t] = "sp_233" /\ hist[t].cpup /\ err[t] = "EPIN"
        /\ bcpup[t] \in h_parent
        /\ ~HoldsDi(t, "parent") /\ t \notin pinned

\* thread t is at a lock call that thread u's holding keeps from returning
WaitsFor(t, u) ==
    \/ pc[t] = "sp_230" /\ u \in di["dentry"].r \cup di["dentry"].w
    \/ pc[t] = "cpup_184" /\ u \in di["parent"].r \cup di["parent"].w
    \/ pc[t] = "sp_253" /\ u \in fi[t].r \cup fi[t].w
    \/ pc[t] = "sp_254" /\ u \in di["dentry"].w
    \/ pc[t] = "fop_130" /\ u \in spin[AuSp_Last]
    \/ pc[t] = "fop_159" /\ u \in spin[slot_spin(slot_of(f_mode[t]))]
    \/ pc[t] \in {"read_fi", "write_fi"} /\ u \in fi[t].w

\* C17: no set of threads in which every thread waits for a lock that a
\* thread of the set holds: no cycle of waiting threads, of any length, a
\* thread waiting for itself included.
TheoremC17 ==
    \A S \in SUBSET Threads :
        S # {} => \E t \in S : \A u \in S : ~WaitsFor(t, u)

\* one opener has upgraded the dentry's lock for a copy-up and is at the
\* re-check; another, back from the native open, waits for that lock
WitnessC17 ==
    \E t, u \in Threads :
        /\ t # u /\ pc[t] = "sp_231" /\ di["dentry"].w = {t}
        /\ pc[u] = "sp_254" /\ WaitsFor(u, t) /\ HoldsSi(u) /\ HoldsFi(u)

\* no entry of slot i's table is the branch's own function
Wrapped(i) ==
    /\ au_sp_fop[i].release = "aufs_release_sp"
    /\ au_sp_fop[i].aio_read \in {"null", "aufs_aio_read_sp"}
    /\ au_sp_fop[i].aio_write \in {"null", "aufs_aio_write_sp"}

\* C18: a slot whose done flag is set is not written by any step, and the
\* slot of an access mode whose done flag is set has release, and aio_read
\* and aio_write where the branch has them, replaced by the aufs functions;
\* the table a file has installed is such a slot.
TheoremC18 ==
    [][/\ \A i \in Slots :
            au_sp_fop[i].done = 1 => au_sp_fop'[i] = au_sp_fop[i]
       /\ \A i \in Slots \ {AuSp_FIFO} :
            /\ au_sp_fop[i].done = 1 => Wrapped(i)
            /\ au_sp_fop'[i].done = 1 => Wrapped(i)'
       /\ \A f \in Threads :
            Installed(f)' => /\ au_sp_fop'[f_op'[f]].done = 1
                             /\ Wrapped(f_op[f])']_vars

\* a file has its table installed and a second opener of the same access
\* mode, which found the slot done without taking a lock, installs it too
WitnessC18 ==
    \E t, u \in Threads :
        /\ t # u /\ Installed(t) /\ pc[u] = "fop_171" /\ hist[u].fast
        /\ slot_of(f_mode[u]) = f_op[t] /\ Wrapped(f_op[t])

\* the locks au_do_open_sp is called with
EntryLocks(t) ==
    /\ HoldsSi(t)
    /\ fi[t].w = {t} /\ fi[t].r = {}
    /\ t \in di["dentry"].r /\ di["dentry"].w = {}
    /\ ~HoldsDi(t, "parent") /\ t \notin pinned
    /\ \A i \in AuSp_FIFO..AuSp_Last : t \notin spin[i]

\* C20: au_do_open_sp returns, with 0 or with any error, holding what it
\* was entered with: si_rwsem shared, the file's fi_rwsem exclusive, the
\* dentry's di_rwsem shared, and neither the parent's di_rwsem, a pin nor a
\* spinlock.
TheoremC20 ==
    \A t \in Threads :
        /\ pc[t] = "sp_218" => EntryLocks(t)
        /\ pc[t] = "sp_out"
           => /\ EntryLocks(t)
              /\ err[t] \in {"OK", "EROFS"} \cup StepErrs

\* the return of an open that upgraded the lock and skipped the copy-up
WitnessC20 ==
    \E t \in Threads :
        /\ pc[t] = "sp_out" /\ err[t] = "OK"
        /\ bcpup[t] >= 0 /\ ~hist[t].cpup /\ EntryLocks(t)

\* thread t is between the entry and the return of au_do_open
InOpen(t) ==
    pc[t] \in {"sp_218", "sp_229", "sp_230", "sp_231", "cpup_184", "cpup_185",
              "cpup_191", "cpup_194", "cpup_195", "cpup_199", "sp_233",
              "sp_237", "sp_247", "sp_248", "sp_249", "sp_251", "h_open",
              "sp_252", "sp_253", "sp_254", "sp_255", "fop_126", "fop_130",
              "fop_131", "fop_138", "fop_156", "fop_159", "fop_160",
              "fop_162", "fop_167", "fop_169", "fop_171", "sp_out"}

\* thread t's open has returned an error
FailedOpen(t) == nopen[t] >= 1 /\ pc[t] = "idle"

\* C19: no thread waits for a lock held by a thread that is inside the
\* native open; and once every thread has started its open of its end of
\* the pipe, either some open returns an error or every open returns 0
\* with the delegation table installed.
TheoremC19 ==
    /\ [](\A t, u \in Threads : pc[t] = "h_open" => ~WaitsFor(u, t))
    /\ (\A t \in Threads : nopen[t] >= 1)
          ~> ((\E t \in Threads : FailedOpen(t))
              \/ (\A t \in Threads : ~InOpen(t) /\ f_op[t] # AuSp_FIFO))

\* the reader is inside the native open, waiting for its peer, while the
\* writer asks for the dentry's lock exclusively
WitnessC19 ==
    \E t, u \in Threads :
        /\ End(t) = "R" /\ End(u) = "W"
        /\ pc[t] = "h_open" /\ ~PeerIn(t)
        /\ pc[u] = "sp_230" /\ can_write(di["dentry"])

====
